---- MODULE Spec2Model ----
(***************************************************************************)
(* Model of the radar relay server (radar/server/src/server.rs):           *)
(* RadarServer's client registry and session registry, PubSession's        *)
(* best-effort broadcast, and the per-connection outbound channel.         *)
(*                                                                         *)
(* A connection is an object (a PubClient behind an Arc, its outbound      *)
(* mpsc channel, its driver loop).  Connections are numbered in the order   *)
(* they are accepted; the registry maps client ids to connections, so that *)
(* two connections holding the same client id (counter wraparound) stay    *)
(* distinct objects, as they do in the program.                            *)
(*                                                                         *)
(* Spec and SpecWrap take each registry operation as one step.  SpecBridge *)
(* follows the tasks of a connection step by step: the upgrade callback,   *)
(* rx_loop, tx_loop and the driver loop, with the inbound channel and the  *)
(* guards the tasks hold on the server's and the clients' locks.           *)
(***************************************************************************)
EXTENDS Integers, Sequences, FiniteSets, TLC

(* ---------------------------------------------------------------------- *)
(* Bounds of the model                                                     *)
(* ---------------------------------------------------------------------- *)

\* width of client_id_counter in bits (u32 in the program, server.rs:81)
IdBits == 2

\* number of connections accepted in a run of Spec
MaxConns == 3

\* number of connections open at the same time in a run of SpecWrap
MaxLive == 3

\* number of distinct codes the session id generator can return
MaxSessionCodes == 2

\* capacity of a connection's outbound channel (mpsc::channel(16),
\* server.rs:129), scaled down like the counter width
ChannelCapacity == 1

\* number of connections in a run of SpecBridge
MaxBridgeConns == 2

\* number of commands the rx loops forward in a run of SpecBridge
MaxFrames == 2

(* ---------------------------------------------------------------------- *)
(* Values                                                                  *)
(* ---------------------------------------------------------------------- *)

RECURSIVE Pow2(_)
Pow2(n) == IF n = 0 THEN 1 ELSE 2 * Pow2(n - 1)

\* the values of a client id (u32)
Ids == 0 .. (Pow2(IdBits) - 1)

\* u32::wrapping_add
wrapping_add(a, b) == (a + b) % Pow2(IdBits)

\* connections accepted until the counter has gone round once and assigns
\* the first id again
WrapConns == Pow2(IdBits) + 1

Conns == 1 .. (IF MaxConns > WrapConns THEN MaxConns ELSE WrapConns)

\* rand::distributions::Alphanumeric (the first characters of its charset)
Alphanumeric == <<"A", "B", "C", "D", "E", "F", "G", "H">>

\* take(n).collect::<String>() of a stream repeating one character
RECURSIVE Collect(_, _)
Collect(char, n) == IF n = 0 THEN "" ELSE char \o Collect(char, n - 1)

\* a code of 6 alphanumeric characters: sample_iter(..).take(6).collect()
SessionCode(i) == Collect(Alphanumeric[i], 6)

SessionIds == { SessionCode(i) : i \in 1 .. MaxSessionCodes }

\* ClientState
Uninitialized == [tag |-> "Uninitialized"]
Publisher(session_id) == [tag |-> "Publisher", session_id |-> session_id]
Subscriber(session_id) == [tag |-> "Subscriber", session_id |-> session_id]

\* S2CMessage, the two notifications the server builds itself
NotifySessionClosed == [type |-> "NotifySessionClosed"]
NotifyViewCount(viewers) == [type |-> "NotifyViewCount", viewers |-> viewers]

\* PubSessionSubscribeResult
Success == "Success"
InvalidClientState == "InvalidClientState"
InvalidSessionId == "InvalidSessionId"
InvalidClientId == "InvalidClientId"

\* Option::None
None == "None"

\* BTreeMap::insert / BTreeMap::remove on a map held as a function
MapInsert(map, key, value) ==
    [x \in (DOMAIN map) \cup {key} |-> IF x = key THEN value ELSE map[x]]

MapRemove(map, key) == [x \in (DOMAIN map) \ {key} |-> map[x]]

EmptyMap == [x \in {} |-> None]

SetMin(S) == CHOOSE x \in S : \A y \in S : x <= y

\* ClientEvent: the events of a connection's inbound channel
RecvMessage(command) == [type |-> "RecvMessage", command |-> command]
RecvError == [type |-> "RecvError"]
SendError == [type |-> "SendError"]

\* no frame, no command, no response
Nothing == [type |-> "None"]

\* the tasks that take locks: a connection's upgrade callback and its driver
Tasks == {"bridge", "driver"} \X Conns

\* rx_loop's position and the decoded frame it is about to forward
RxAt(at, message) == [at |-> at, message |-> message]

\* nothing enqueued, nothing handled, no error event consumed
NoTrace == [enqueued |-> <<>>, handled |-> <<>>, errored |-> FALSE]

(* ---------------------------------------------------------------------- *)
(* State                                                                   *)
(* ---------------------------------------------------------------------- *)

VARIABLES
    client_id_counter,  \* RadarServer.client_id_counter
    clients,            \* RadarServer.clients: client id -> connection
    pub_sessions,       \* RadarServer.pub_sessions: session id -> PubSession
    state,              \* per connection: PubClient.state
    client_id,          \* per connection: PubClient.client_id
    message_tx,         \* per connection: buffer of the outbound channel
    message_tx_rx,      \* per connection: the outbound channel's receiver is alive
    driver,             \* per connection: "none" | "running" | "done"
    call,               \* the last step: the operation and its result
    message_rx,         \* per connection: buffer of the inbound channel
    rx_loop,            \* per connection: position of rx_loop, the frame read
    tx_loop,            \* per connection: position of tx_loop
    bridge,             \* per connection: position of the upgrade callback
    pc,                 \* per connection: position of the driver loop
    handling,           \* per connection: the command or response in hand
    held,               \* per task: the lock guards it holds, oldest first
    trace               \* per connection: what was enqueued and handled

\* the state of the connection tasks, which the registry operations leave
\* alone
bridge_vars == <<message_rx, rx_loop, tx_loop, bridge, pc, handling, held,
                 trace>>

vars == <<client_id_counter, clients, pub_sessions, state, client_id,
          message_tx, message_tx_rx, driver, call, message_rx, rx_loop,
          tx_loop, bridge, pc, handling, held, trace>>

\* the part of the state the registry operations read and write
Server == [clients |-> clients, pub_sessions |-> pub_sessions,
           state |-> state, message_tx |-> message_tx]

(* ---------------------------------------------------------------------- *)
(* PubSession                                                              *)
(* ---------------------------------------------------------------------- *)

\* a send that queues the message whenever the receiver is alive, whether the
\* buffer has room or not
try_send_unbounded(tx, conn, message) ==
    IF message_tx_rx[conn]
    THEN [tx EXCEPT ![conn] = Append(@, message)]
    ELSE tx

\* mpsc::Sender::try_send on connection conn's channel: the message is
\* queued when the receiver is alive and the buffer has room, else dropped
try_send(tx, conn, message) ==
    IF message_tx_rx[conn] /\ Len(tx[conn]) < ChannelCapacity
    THEN [tx EXCEPT ![conn] = Append(@, message)]
    ELSE tx

\* the loop of PubSession::broadcast over subscriber.values(), in key order
RECURSIVE broadcast_loop(_, _, _, _)
broadcast_loop(subscriber, keys, message, tx) ==
    IF keys = {} THEN tx
    ELSE LET key == SetMin(keys)
         IN  broadcast_loop(subscriber, keys \ {key}, message,
                            try_send(tx, subscriber[key], message))

\* PubSession::broadcast
broadcast(session, message, tx) ==
    broadcast_loop(session.subscriber, DOMAIN session.subscriber, message, tx)

\* a count taken before the departing subscriber is removed
subscriber_count_stale(session) == Cardinality(DOMAIN session.subscriber) + 1

\* PubSession::subscriber_count
subscriber_count(session) == Cardinality(DOMAIN session.subscriber)

(* ---------------------------------------------------------------------- *)
(* RadarServer: the registry operations, as functions of the server state *)
(* ---------------------------------------------------------------------- *)

\* a role check that lets a subscriber through
is_uninitialized_subscriber_passes(client_state) ==
    client_state.tag # "Publisher"

\* matches!(client.state, ClientState::Uninitialized)
is_uninitialized(client_state) == client_state.tag = "Uninitialized"

\* PubClient::new: a fresh client has no role yet
PubClient_new_state == Uninitialized

\* the id register_client assigns: self.client_id_counter.wrapping_add(1)
next_client_id(counter) == wrapping_add(counter, 1)

\* RadarServer::pub_session_create, session_id being the generated code
pub_session_create(srv, owner_id, session_id) ==
    IF owner_id \notin DOMAIN srv.clients
    THEN [srv |-> srv, result |-> None]
    ELSE LET owner == srv.clients[owner_id]
         IN  IF ~is_uninitialized(srv.state[owner])
             THEN [srv |-> srv, result |-> None]
             ELSE [srv |->
                     [srv EXCEPT
                        !.pub_sessions =
                            MapInsert(@, session_id,
                                      [owner_id |-> owner_id,
                                       session_id |-> session_id,
                                       subscriber |-> EmptyMap]),
                        !.state[owner] = Publisher(session_id)],
                   result |-> session_id]

\* RadarServer::pub_session_find
pub_session_find(srv, session_id) ==
    IF session_id \in DOMAIN srv.pub_sessions
    THEN srv.pub_sessions[session_id]
    ELSE None

\* an unsubscribe that notifies the session only when the client was in its
\* map
unsubscribe_session_quiet_when_absent(srv, session_id, cid) ==
    IF /\ session_id \in DOMAIN srv.pub_sessions
       /\ cid \in DOMAIN srv.pub_sessions[session_id].subscriber
    THEN LET session == [srv.pub_sessions[session_id] EXCEPT
                            !.subscriber = MapRemove(@, cid)]
         IN  [srv EXCEPT
                !.pub_sessions[session_id] = session,
                !.message_tx =
                    broadcast(session,
                              NotifyViewCount(subscriber_count(session)), @)]
    ELSE srv

\* an unsubscribe that notifies the session before the departing subscriber
\* is out of its map
unsubscribe_session_notify_first(srv, session_id, cid) ==
    IF session_id \in DOMAIN srv.pub_sessions
    THEN LET before == srv.pub_sessions[session_id]
             session == [before EXCEPT !.subscriber = MapRemove(@, cid)]
         IN  [srv EXCEPT
                !.pub_sessions[session_id] = session,
                !.message_tx =
                    broadcast(before,
                              NotifyViewCount(subscriber_count(session)), @)]
    ELSE srv

\* RadarServer::pub_session_unsubscribe, first half: the session's map
unsubscribe_session(srv, session_id, cid) ==
    IF session_id \in DOMAIN srv.pub_sessions
    THEN LET session == [srv.pub_sessions[session_id] EXCEPT
                            !.subscriber = MapRemove(@, cid)]
         IN  [srv EXCEPT
                !.pub_sessions[session_id] = session,
                !.message_tx =
                    broadcast(session,
                              NotifyViewCount(subscriber_count(session)), @)]
    ELSE srv

\* a reset of the subscriber's role only while its session is in the map
unsubscribe_client_only_live_session(srv, session_id, cid) ==
    IF cid \in DOMAIN srv.clients /\ session_id \in DOMAIN srv.pub_sessions
    THEN LET client == srv.clients[cid]
         IN  IF /\ srv.state[client].tag = "Subscriber"
                /\ srv.state[client].session_id = session_id
             THEN [srv EXCEPT !.state[client] = Uninitialized]
             ELSE srv
    ELSE srv

\* a reset of the client's role whatever the role is
unsubscribe_client_resets_any(srv, session_id, cid) ==
    IF cid \in DOMAIN srv.clients
    THEN [srv EXCEPT !.state[srv.clients[cid]] = Uninitialized]
    ELSE srv

\* RadarServer::pub_session_unsubscribe, second half: the client's role
unsubscribe_client(srv, session_id, cid) ==
    IF cid \in DOMAIN srv.clients
    THEN LET client == srv.clients[cid]
         IN  IF /\ srv.state[client].tag = "Subscriber"
                /\ srv.state[client].session_id = session_id
             THEN [srv EXCEPT !.state[client] = Uninitialized]
             ELSE srv
    ELSE srv

\* RadarServer::pub_session_unsubscribe
pub_session_unsubscribe(srv, session_id, cid) ==
    unsubscribe_client(unsubscribe_session(srv, session_id, cid),
                       session_id, cid)

\* a validation that looks the session up before the client
subscribe_result_session_first(srv, session_id, cid) ==
    IF session_id \notin DOMAIN srv.pub_sessions THEN InvalidSessionId
    ELSE IF cid \notin DOMAIN srv.clients THEN InvalidClientId
    ELSE IF srv.state[srv.clients[cid]].tag # "Uninitialized"
         THEN InvalidClientState
    ELSE Success

\* RadarServer::pub_session_subscribe, the validation that picks the result
subscribe_result(srv, session_id, cid) ==
    IF cid \notin DOMAIN srv.clients THEN InvalidClientId
    ELSE IF ~is_uninitialized(srv.state[srv.clients[cid]])
         THEN InvalidClientState
    ELSE IF session_id \notin DOMAIN srv.pub_sessions THEN InvalidSessionId
    ELSE Success

\* a join that notifies the session before the new subscriber is in its map
subscribe_join_notify_first(srv, session_id, cid) ==
    LET client == srv.clients[cid]
        before == srv.pub_sessions[session_id]
        session == [before EXCEPT
                       !.subscriber = MapInsert(@, client_id[client], client)]
    IN  [srv EXCEPT
           !.pub_sessions[session_id] = session,
           !.message_tx =
               broadcast(before,
                         NotifyViewCount(Cardinality(DOMAIN session.subscriber)),
                         @),
           !.state[client] = Subscriber(session.session_id)]

\* RadarServer::pub_session_subscribe, the effect of a successful call
subscribe_join(srv, session_id, cid) ==
    LET client == srv.clients[cid]
        session == [srv.pub_sessions[session_id] EXCEPT
                       !.subscriber = MapInsert(@, client_id[client], client)]
    IN  [srv EXCEPT
           !.pub_sessions[session_id] = session,
           !.message_tx =
               broadcast(session,
                         NotifyViewCount(Cardinality(DOMAIN session.subscriber)),
                         @),
           !.state[client] = Subscriber(session.session_id)]

\* RadarServer::pub_session_subscribe
pub_session_subscribe(srv, session_id, cid) ==
    LET result == subscribe_result(srv, session_id, cid)
    IN  [srv |-> IF result = Success
                 THEN subscribe_join(srv, session_id, cid)
                 ELSE srv,
         result |-> result]

\* a match that tells the subscribers of a publisher's session that it is
\* closed but leaves the session in the map
unregister_role_keeps_session(srv, cid, client_state) ==
    CASE client_state.tag = "Publisher" ->
            IF client_state.session_id \in DOMAIN srv.pub_sessions
            THEN LET session == srv.pub_sessions[client_state.session_id]
                 IN  [srv EXCEPT
                        !.message_tx = broadcast(session, NotifySessionClosed, @)]
            ELSE srv
      [] client_state.tag = "Subscriber" ->
            pub_session_unsubscribe(srv, client_state.session_id, cid)
      [] OTHER -> srv

\* RadarServer::unregister_client, the match on the removed client's state
unregister_role(srv, cid, client_state) ==
    CASE client_state.tag = "Publisher" ->
            IF client_state.session_id \in DOMAIN srv.pub_sessions
            THEN LET session == srv.pub_sessions[client_state.session_id]
                 IN  [srv EXCEPT
                        !.pub_sessions = MapRemove(@, client_state.session_id),
                        !.message_tx = broadcast(session, NotifySessionClosed, @)]
            ELSE srv
      [] client_state.tag = "Subscriber" ->
            pub_session_unsubscribe(srv, client_state.session_id, cid)
      [] OTHER -> srv

\* an unregistration that also resets the role of every client that is
\* recorded as a subscriber of the session of the client it removes
unregister_client_resets_subscribers(srv, cid) ==
    IF cid \notin DOMAIN srv.clients
    THEN srv
    ELSE LET client == srv.clients[cid]
             after == unregister_role([srv EXCEPT !.clients = MapRemove(@, cid)],
                                      cid, srv.state[client])
         IN  [after EXCEPT
                !.state = [k \in DOMAIN @ |->
                             IF /\ k # client
                                /\ @[k].tag = "Subscriber"
                                /\ srv.state[client].tag = "Publisher"
                                /\ @[k].session_id = srv.state[client].session_id
                             THEN Uninitialized
                             ELSE @[k]]]

\* RadarServer::unregister_client
unregister_client(srv, cid) ==
    IF cid \notin DOMAIN srv.clients
    THEN srv
    ELSE LET client == srv.clients[cid]
         IN  unregister_role([srv EXCEPT !.clients = MapRemove(@, cid)],
                             cid, srv.state[client])

(* ---------------------------------------------------------------------- *)
(* Initial state and steps                                                 *)
(* ---------------------------------------------------------------------- *)

\* the connections on whose outbound queue try_send has put a message
\* between two values of the queues
delivered(before, after) ==
    { k \in Conns : Len(after[k]) > Len(before[k]) }

\* a step's record: the operation, its result (for unregister_client, which
\* has none, the role it matched on) and the connections it has sent to; a
\* step of a connection task outside the registry is recorded as "task"
Call(op, value, sent) == [op |-> op, value |-> value, sent |-> sent]

\* RadarServer::new, and no connection accepted yet
Init ==
    /\ client_id_counter = 1
    /\ clients = EmptyMap
    /\ pub_sessions = EmptyMap
    /\ state = [k \in Conns |-> PubClient_new_state]
    /\ client_id = [k \in Conns |-> 0]
    /\ message_tx = [k \in Conns |-> <<>>]
    /\ message_tx_rx = [k \in Conns |-> FALSE]
    /\ driver = [k \in Conns |-> "none"]
    /\ call = Call("new", None, {})
    /\ message_rx = [k \in Conns |-> <<>>]
    /\ rx_loop = [k \in Conns |-> RxAt("none", Nothing)]
    /\ tx_loop = [k \in Conns |-> "none"]
    /\ bridge = [k \in Conns |-> "none"]
    /\ pc = [k \in Conns |-> "none"]
    /\ handling = [k \in Conns |-> Nothing]
    /\ held = [t \in Tasks |-> <<>>]
    /\ trace = [k \in Conns |-> NoTrace]

\* the registry operations write back the server state they return
Commit(srv) ==
    /\ clients' = srv.clients
    /\ pub_sessions' = srv.pub_sessions
    /\ state' = srv.state
    /\ message_tx' = srv.message_tx

\* listen_http's upgrade callback for the k-th connection accepted: the
\* channels are created and the client is registered under the server's
\* write lock (RadarServer::register_client), and its driver loop is spawned
register_client(k) ==
    /\ LET id == next_client_id(client_id_counter)
       IN  /\ client_id_counter' = id
           /\ client_id' = [client_id EXCEPT ![k] = id]
           /\ state' = [state EXCEPT ![k] = PubClient_new_state]
           /\ clients' = MapInsert(clients, id, k)
           /\ message_tx' = [message_tx EXCEPT ![k] = <<>>]
           /\ message_tx_rx' = [message_tx_rx EXCEPT ![k] = TRUE]
           /\ driver' = [driver EXCEPT ![k] = "running"]
           /\ call' = Call("register", None, {})
    /\ UNCHANGED pub_sessions

\* the k-th connection is accepted and registered in one step
Register(k) ==
    /\ driver[k] = "none"
    /\ \A j \in Conns : j < k => driver[j] # "none"
    /\ register_client(k)
    /\ UNCHANGED bridge_vars

\* some connection's command handler is running and calls into the registry
HandlerRunning == \E k \in Conns : driver[k] = "running"

\* a command handler calls pub_session_create
Create(owner_id, session_id) ==
    /\ HandlerRunning
    /\ LET r == pub_session_create(Server, owner_id, session_id)
       IN  /\ Commit(r.srv)
           /\ call' = Call("create", r.result, {})
    /\ UNCHANGED <<client_id_counter, client_id, message_tx_rx, driver>>
    /\ UNCHANGED bridge_vars

\* a command handler calls pub_session_subscribe
Subscribe(session_id, cid) ==
    /\ HandlerRunning
    /\ LET r == pub_session_subscribe(Server, session_id, cid)
       IN  /\ Commit(r.srv)
           /\ call' = Call("subscribe", r.result,
                           delivered(message_tx, r.srv.message_tx))
    /\ UNCHANGED <<client_id_counter, client_id, message_tx_rx, driver>>
    /\ UNCHANGED bridge_vars

\* a command handler calls pub_session_unsubscribe
Unsubscribe(session_id, cid) ==
    /\ HandlerRunning
    /\ LET srv == pub_session_unsubscribe(Server, session_id, cid)
       IN  /\ Commit(srv)
           /\ call' = Call("unsubscribe", None,
                           delivered(message_tx, srv.message_tx))
    /\ UNCHANGED <<client_id_counter, client_id, message_tx_rx, driver>>
    /\ UNCHANGED bridge_vars

\* the role unregister_client finds in the client it removes
removed_role(srv, cid) ==
    IF cid \in DOMAIN srv.clients THEN srv.state[srv.clients[cid]].tag ELSE None

\* the driver loop of connection k ends on an error event and calls
\* unregister_client with its own id; the task's PubClient handle is dropped
driver_unregister(k) ==
    /\ driver[k] = "running"
    /\ LET srv == unregister_client(Server, client_id[k])
       IN  /\ clients' = srv.clients
           /\ pub_sessions' = srv.pub_sessions
           /\ message_tx' = srv.message_tx
           /\ state' = [srv.state EXCEPT ![k] = PubClient_new_state]
           /\ call' = Call("unregister", removed_role(Server, client_id[k]),
                           delivered(message_tx, srv.message_tx))
    /\ client_id' = [client_id EXCEPT ![k] = 0]
    /\ driver' = [driver EXCEPT ![k] = "done"]
    /\ UNCHANGED <<client_id_counter, message_tx_rx>>

\* the driver loop of connection k ends and unregisters in one step
DriverEnd(k) == driver_unregister(k) /\ UNCHANGED bridge_vars

\* tx_loop of connection k takes the next outbound message and writes it
TxRecv(k) ==
    /\ message_tx_rx[k]
    /\ message_tx[k] # <<>>
    /\ message_tx' = [message_tx EXCEPT ![k] = Tail(@)]
    /\ call' = Call("tx_loop", None, {})
    /\ UNCHANGED <<client_id_counter, clients, pub_sessions, state, client_id,
                   message_tx_rx, driver>>
    /\ UNCHANGED bridge_vars

\* tx_loop of connection k ends (send or encode error, or the channel is
\* closed): the receiver is dropped with whatever is still buffered
TxLoopEnd(k) ==
    /\ message_tx_rx[k]
    /\ message_tx_rx' = [message_tx_rx EXCEPT ![k] = FALSE]
    /\ message_tx' = [message_tx EXCEPT ![k] = <<>>]
    /\ call' = Call("tx_loop", None, {})
    /\ UNCHANGED <<client_id_counter, clients, pub_sessions, state, client_id,
                   driver>>
    /\ UNCHANGED bridge_vars

\* the calls into the registry
RegistrySteps ==
    \/ \E owner_id \in Ids, session_id \in SessionIds :
            Create(owner_id, session_id)
    \/ \E session_id \in SessionIds, cid \in Ids : Subscribe(session_id, cid)
    \/ \E session_id \in SessionIds, cid \in Ids : Unsubscribe(session_id, cid)
    \/ \E k \in Conns : DriverEnd(k)

\* the steps of the tx loops
ChannelSteps ==
    \/ \E k \in Conns : TxRecv(k)
    \/ \E k \in Conns : TxLoopEnd(k)

\* MaxConns connections are accepted, all of which may be open together
Next ==
    \/ \E k \in 1 .. MaxConns : Register(k)
    \/ RegistrySteps
    \/ ChannelSteps

Spec == Init /\ [][Next]_vars

\* the connections whose driver loop is running
Live == { k \in Conns : driver[k] = "running" }

\* connections are accepted until the id counter has gone round, at most
\* MaxLive of them open together; the generator returns one code and the tx
\* loops take no step
NextWrap ==
    \/ \E k \in 1 .. WrapConns : Cardinality(Live) < MaxLive /\ Register(k)
    \/ \E owner_id \in Ids : Create(owner_id, SessionCode(1))
    \/ \E cid \in Ids : Subscribe(SessionCode(1), cid)
    \/ \E cid \in Ids : Unsubscribe(SessionCode(1), cid)
    \/ \E k \in Conns : DriverEnd(k)

SpecWrap == Init /\ [][NextWrap]_vars

(* ---------------------------------------------------------------------- *)
(* The connection tasks: upgrade callback, rx_loop, tx_loop, driver loop   *)
(* ---------------------------------------------------------------------- *)

\* the connections of a run of SpecBridge
BridgeConns == 1 .. MaxBridgeConns

\* the commands a frame decodes to, by the registry operation the command
\* handler answers them with
Commands == {"create", "subscribe", "unsubscribe"}

\* the seq-th command rx_loop has decoded on a connection
Command(op, seq) == [type |-> "Command", op |-> op, seq |-> seq]

\* the command handler's answer to a command
Response(command, result) ==
    [type |-> "Response", seq |-> command.seq, result |-> result]

\* the server's RwLock and the RwLock around connection k's PubClient
ServerLock == 0
ClientLock(k) == k

Guard(lock, mode) == [lock |-> lock, mode |-> mode]

\* the guards task t holds on a lock
GuardsOn(t, lock) == { i \in 1 .. Len(held[t]) : held[t][i].lock = lock }

\* RwLock::write resolves when no guard is out, RwLock::read when no write
\* guard is
CanWrite(lock) == \A t \in Tasks : GuardsOn(t, lock) = {}
CanRead(lock) ==
    \A t \in Tasks : \A i \in GuardsOn(t, lock) : held[t][i].mode = "read"

Acquire(t, lock, mode) == [held EXCEPT ![t] = Append(@, Guard(lock, mode))]

\* the task's guards go out of scope
ReleaseAll(t) == [held EXCEPT ![t] = <<>>]

\* the receiver of connection k's inbound channel lives in its driver's
\* future and is dropped with it
message_rx_closed(k) == driver[k] = "done"

\* mpsc::Sender::send(..).await on the inbound channel resolves when the
\* buffer has room or the receiver is gone
inbound_ready(k) ==
    message_rx_closed(k) \/ Len(message_rx[k]) < ChannelCapacity

\* ... and queues the event unless the receiver is gone
inbound_send(k, event) ==
    IF message_rx_closed(k)
    THEN message_rx
    ELSE [message_rx EXCEPT ![k] = Append(@, event)]

\* the upgrade callback of the k-th connection takes the server's write lock
Accept(k) ==
    /\ bridge[k] = "none"
    /\ \A j \in Conns : j < k => bridge[j] # "none"
    /\ CanWrite(ServerLock)
    /\ held' = Acquire(<<"bridge", k>>, ServerLock, "write")
    /\ bridge' = [bridge EXCEPT ![k] = "register"]
    /\ call' = Call("task", None, {})
    /\ UNCHANGED <<client_id_counter, clients, pub_sessions, state, client_id,
                   message_tx, message_tx_rx, driver, message_rx, rx_loop,
                   tx_loop, pc, handling, trace>>

\* ... registers the client, spawns the driver loop, drops the lock guard,
\* spawns rx_loop and tx_loop and waits for one of them
BridgeRegister(k) ==
    /\ bridge[k] = "register"
    /\ register_client(k)
    /\ held' = ReleaseAll(<<"bridge", k>>)
    /\ pc' = [pc EXCEPT ![k] = "recv"]
    /\ rx_loop' = [rx_loop EXCEPT ![k] = RxAt("next", Nothing)]
    /\ tx_loop' = [tx_loop EXCEPT ![k] = "recv"]
    /\ bridge' = [bridge EXCEPT ![k] = "select"]
    /\ UNCHANGED <<message_rx, handling, trace>>

\* what rx_loop, tx_loop and the upgrade callback leave alone
RegistryUnchanged ==
    UNCHANGED <<client_id_counter, clients, pub_sessions, state, client_id,
                driver>>

\* the commands decoded so far
RECURSIVE Frames(_)
Frames(K) ==
    IF K = {} THEN 0
    ELSE LET k == SetMin(K)
         IN  Len(trace[k].enqueued)
             + (IF rx_loop[k].at = "send_message" THEN 1 ELSE 0)
             + Frames(K \ {k})

\* rx_loop reads a text frame that decodes to a command
RxMessage(k, op) ==
    /\ rx_loop[k].at = "next"
    /\ Frames(BridgeConns) < MaxFrames
    /\ rx_loop' = [rx_loop EXCEPT ![k] =
            RxAt("send_message", Command(op, Len(trace[k].enqueued) + 1))]
    /\ call' = Call("task", None, {})
    /\ RegistryUnchanged
    /\ UNCHANGED <<message_tx, message_tx_rx, message_rx, tx_loop, bridge, pc,
                   handling, held, trace>>

\* rx_loop's read fails, or the frame does not decode
RxError(k) ==
    /\ rx_loop[k].at = "next"
    /\ rx_loop' = [rx_loop EXCEPT ![k] = RxAt("send_error", Nothing)]
    /\ call' = Call("task", None, {})
    /\ RegistryUnchanged
    /\ UNCHANGED <<message_tx, message_tx_rx, message_rx, tx_loop, bridge, pc,
                   handling, held, trace>>

\* the peer closes the stream: rx.next() returns None and rx_loop ends
RxClosed(k) ==
    /\ rx_loop[k].at = "next"
    /\ rx_loop' = [rx_loop EXCEPT ![k] = RxAt("done", Nothing)]
    /\ call' = Call("task", None, {})
    /\ RegistryUnchanged
    /\ UNCHANGED <<message_tx, message_tx_rx, message_rx, tx_loop, bridge, pc,
                   handling, held, trace>>

\* rx_loop forwards the command; a failed send is logged and the loop goes on
RxSendMessage(k) ==
    /\ rx_loop[k].at = "send_message"
    /\ inbound_ready(k)
    /\ message_rx' = inbound_send(k, RecvMessage(rx_loop[k].message))
    /\ trace' = IF message_rx_closed(k)
                THEN trace
                ELSE [trace EXCEPT ![k].enqueued =
                            Append(@, rx_loop[k].message.seq)]
    /\ rx_loop' = [rx_loop EXCEPT ![k] = RxAt("next", Nothing)]
    /\ call' = Call("task", None, {})
    /\ RegistryUnchanged
    /\ UNCHANGED <<message_tx, message_tx_rx, tx_loop, bridge, pc, handling,
                   held>>

\* rx_loop forwards the error and ends
RxSendError(k) ==
    /\ rx_loop[k].at = "send_error"
    /\ inbound_ready(k)
    /\ message_rx' = inbound_send(k, RecvError)
    /\ rx_loop' = [rx_loop EXCEPT ![k] = RxAt("done", Nothing)]
    /\ call' = Call("task", None, {})
    /\ RegistryUnchanged
    /\ UNCHANGED <<message_tx, message_tx_rx, tx_loop, bridge, pc, handling,
                   held, trace>>

\* tx_loop takes the next outbound message, encodes it and writes it
TxWrite(k) ==
    /\ tx_loop[k] = "recv"
    /\ message_tx[k] # <<>>
    /\ message_tx' = [message_tx EXCEPT ![k] = Tail(@)]
    /\ call' = Call("task", None, {})
    /\ RegistryUnchanged
    /\ UNCHANGED <<message_tx_rx, message_rx, rx_loop, tx_loop, bridge, pc,
                   handling, held, trace>>

\* tx_loop takes the next outbound message and fails to encode or write it
TxFail(k) ==
    /\ tx_loop[k] = "recv"
    /\ message_tx[k] # <<>>
    /\ message_tx' = [message_tx EXCEPT ![k] = Tail(@)]
    /\ tx_loop' = [tx_loop EXCEPT ![k] = "send_error"]
    /\ call' = Call("task", None, {})
    /\ RegistryUnchanged
    /\ UNCHANGED <<message_tx_rx, message_rx, rx_loop, bridge, pc, handling,
                   held, trace>>

\* tx_loop forwards the error and ends; the outbound receiver is dropped
TxSendError(k) ==
    /\ tx_loop[k] = "send_error"
    /\ inbound_ready(k)
    /\ message_rx' = inbound_send(k, SendError)
    /\ tx_loop' = [tx_loop EXCEPT ![k] = "done"]
    /\ message_tx_rx' = [message_tx_rx EXCEPT ![k] = FALSE]
    /\ message_tx' = [message_tx EXCEPT ![k] = <<>>]
    /\ call' = Call("task", None, {})
    /\ RegistryUnchanged
    /\ UNCHANGED <<rx_loop, bridge, pc, handling, held, trace>>

\* every sender of connection k's outbound channel is dropped: the PubClient
\* (with its driver) and the clones in the sessions' subscriber maps
message_tx_closed(k) ==
    /\ driver[k] = "done"
    /\ \A s \in DOMAIN pub_sessions :
            \A c \in DOMAIN pub_sessions[s].subscriber :
                pub_sessions[s].subscriber[c] # k

\* message_tx_rx.recv() returns None and tx_loop ends
TxClosed(k) ==
    /\ tx_loop[k] = "recv"
    /\ message_tx[k] = <<>>
    /\ message_tx_closed(k)
    /\ tx_loop' = [tx_loop EXCEPT ![k] = "done"]
    /\ message_tx_rx' = [message_tx_rx EXCEPT ![k] = FALSE]
    /\ call' = Call("task", None, {})
    /\ RegistryUnchanged
    /\ UNCHANGED <<message_tx, message_rx, rx_loop, bridge, pc, handling, held,
                   trace>>

\* an upgrade callback that returns after select! without sending an event
BridgeDisconnected_silent(k) ==
    /\ bridge[k] = "select"
    /\ rx_loop[k].at = "done" \/ tx_loop[k] = "done"
    /\ bridge' = [bridge EXCEPT ![k] = "done"]
    /\ call' = Call("task", None, {})
    /\ RegistryUnchanged
    /\ UNCHANGED <<message_tx, message_tx_rx, message_rx, rx_loop, tx_loop, pc,
                   handling, held, trace>>

\* select! resolves when either loop has finished, and the upgrade callback
\* sends the "client disconnected" event
BridgeDisconnected(k) ==
    /\ bridge[k] = "select"
    /\ rx_loop[k].at = "done" \/ tx_loop[k] = "done"
    /\ inbound_ready(k)
    /\ message_rx' = inbound_send(k, RecvError)
    /\ bridge' = [bridge EXCEPT ![k] = "done"]
    /\ call' = Call("task", None, {})
    /\ RegistryUnchanged
    /\ UNCHANGED <<message_tx, message_tx_rx, rx_loop, tx_loop, pc, handling,
                   held, trace>>

\* every sender of connection k's inbound channel is dropped
message_rx_tx_closed(k) ==
    rx_loop[k].at = "done" /\ tx_loop[k] = "done" /\ bridge[k] = "done"

\* a driver loop that breaks on RecvError only and goes on after a SendError
DriverRecv_goes_on_after_send_error(k) ==
    /\ pc[k] = "recv"
    /\ message_rx[k] # <<>> \/ message_rx_tx_closed(k)
    /\ IF message_rx[k] # <<>> /\ Head(message_rx[k]).type = "RecvMessage"
       THEN /\ pc' = [pc EXCEPT ![k] = "handle"]
            /\ handling' = [handling EXCEPT ![k] = Head(message_rx[k]).command]
            /\ UNCHANGED trace
       ELSE /\ pc' = [pc EXCEPT ![k] =
                    IF message_rx[k] # <<>> /\ Head(message_rx[k]).type = "SendError"
                    THEN "recv" ELSE "unregister"]
            /\ trace' = [trace EXCEPT ![k].errored = message_rx[k] # <<>>]
            /\ UNCHANGED handling
    /\ message_rx' = [message_rx EXCEPT ![k] =
            IF @ = <<>> THEN @ ELSE Tail(@)]
    /\ call' = Call("task", None, {})
    /\ RegistryUnchanged
    /\ UNCHANGED <<message_tx, message_tx_rx, rx_loop, tx_loop, bridge, held>>

\* the driver loop takes the next event: a command goes to the handler, an
\* error event (or the closed channel) breaks the loop
DriverRecv(k) ==
    /\ pc[k] = "recv"
    /\ message_rx[k] # <<>> \/ message_rx_tx_closed(k)
    /\ IF message_rx[k] # <<>> /\ Head(message_rx[k]).type = "RecvMessage"
       THEN /\ pc' = [pc EXCEPT ![k] = "handle"]
            /\ handling' = [handling EXCEPT ![k] = Head(message_rx[k]).command]
            /\ UNCHANGED trace
       ELSE /\ pc' = [pc EXCEPT ![k] = "unregister"]
            /\ trace' = [trace EXCEPT ![k].errored = message_rx[k] # <<>>]
            /\ UNCHANGED handling
    /\ message_rx' = [message_rx EXCEPT ![k] =
            IF @ = <<>> THEN @ ELSE Tail(@)]
    /\ call' = Call("task", None, {})
    /\ RegistryUnchanged
    /\ UNCHANGED <<message_tx, message_tx_rx, rx_loop, tx_loop, bridge, held>>

\* ServerCommandHandler::handle_command: the handler answers a command by one
\* registry operation on the client's own id (the session code is the one
\* the generator returns)
handle_command(srv, cid, command) ==
    CASE command.op = "create" ->
            pub_session_create(srv, cid, SessionCode(1))
      [] command.op = "subscribe" ->
            pub_session_subscribe(srv, SessionCode(1), cid)
      [] command.op = "unsubscribe" ->
            [srv |-> pub_session_unsubscribe(srv, SessionCode(1), cid),
             result |-> None]

\* the handler takes the server's write lock for the operation
HandlerLock(k) ==
    /\ pc[k] = "handle"
    /\ CanWrite(ServerLock)
    /\ held' = Acquire(<<"driver", k>>, ServerLock, "write")
    /\ pc' = [pc EXCEPT ![k] = "client"]
    /\ call' = Call("task", None, {})
    /\ RegistryUnchanged
    /\ UNCHANGED <<message_tx, message_tx_rx, message_rx, rx_loop, tx_loop,
                   bridge, handling, trace>>

\* the registry operation looks its client up and takes the client's write
\* lock (owner.write() in pub_session_create, client.write() in
\* pub_session_subscribe and pub_session_unsubscribe)
ClientWrite(k) ==
    /\ pc[k] = "client"
    /\ IF client_id[k] \in DOMAIN clients
       THEN /\ CanWrite(ClientLock(clients[client_id[k]]))
            /\ held' = Acquire(<<"driver", k>>,
                               ClientLock(clients[client_id[k]]), "write")
       ELSE UNCHANGED held
    /\ pc' = [pc EXCEPT ![k] = "operation"]
    /\ call' = Call("task", None, {})
    /\ RegistryUnchanged
    /\ UNCHANGED <<message_tx, message_tx_rx, message_rx, rx_loop, tx_loop,
                   bridge, handling, trace>>

\* the registry operation runs, the guards are dropped and the handler
\* returns its response
HandlerCall(k) ==
    /\ pc[k] = "operation"
    /\ LET r == handle_command(Server, client_id[k], handling[k])
       IN  /\ Commit(r.srv)
           /\ call' = Call(handling[k].op, r.result,
                           delivered(message_tx, r.srv.message_tx))
           /\ handling' = [handling EXCEPT ![k] = Response(@, r.result)]
    /\ trace' = [trace EXCEPT ![k].handled = Append(@, handling[k].seq)]
    /\ held' = ReleaseAll(<<"driver", k>>)
    /\ pc' = [pc EXCEPT ![k] = "read"]
    /\ UNCHANGED <<client_id_counter, client_id, message_tx_rx, driver,
                   message_rx, rx_loop, tx_loop, bridge>>

\* client.read().await in the driver loop
ClientRead(k) ==
    /\ pc[k] = "read"
    /\ CanRead(ClientLock(k))
    /\ held' = Acquire(<<"driver", k>>, ClientLock(k), "read")
    /\ pc' = [pc EXCEPT ![k] = "send"]
    /\ call' = Call("task", None, {})
    /\ RegistryUnchanged
    /\ UNCHANGED <<message_tx, message_tx_rx, message_rx, rx_loop, tx_loop,
                   bridge, handling, trace>>

\* PubClient::send_command: the enqueue on the client's outbound channel
\* completes when the receiver is alive and the buffer has room
send_command_ready(tx, conn) ==
    message_tx_rx[conn] /\ Len(tx[conn]) < ChannelCapacity

send_command(tx, conn, message) == [tx EXCEPT ![conn] = Append(@, message)]

\* a driver loop that keeps the client's read guard after the call
DriverSend_keeps_guard(k) ==
    /\ pc[k] = "send"
    /\ message_tx' = IF send_command_ready(message_tx, k)
                     THEN send_command(message_tx, k, handling[k])
                     ELSE message_tx
    /\ UNCHANGED held
    /\ handling' = [handling EXCEPT ![k] = Nothing]
    /\ pc' = [pc EXCEPT ![k] = "recv"]
    /\ call' = Call("send_command", None,
                    delivered(message_tx, message_tx'))
    /\ RegistryUnchanged
    /\ UNCHANGED <<message_tx_rx, message_rx, rx_loop, tx_loop, bridge, trace>>

\* .send_command(result); in the driver loop: the call is a statement that
\* is not awaited, so the loop goes on whether or not the enqueue could
\* complete, and the read guard is dropped at the end of the statement
DriverSend(k) ==
    /\ pc[k] = "send"
    /\ message_tx' = IF send_command_ready(message_tx, k)
                     THEN send_command(message_tx, k, handling[k])
                     ELSE message_tx
    /\ held' = ReleaseAll(<<"driver", k>>)
    /\ handling' = [handling EXCEPT ![k] = Nothing]
    /\ pc' = [pc EXCEPT ![k] = "recv"]
    /\ call' = Call("send_command", None,
                    delivered(message_tx, message_tx'))
    /\ RegistryUnchanged
    /\ UNCHANGED <<message_tx_rx, message_rx, rx_loop, tx_loop, bridge, trace>>

\* the loop has ended: command_handler.server.write().await
UnregisterLock(k) ==
    /\ pc[k] = "unregister"
    /\ CanWrite(ServerLock)
    /\ held' = Acquire(<<"driver", k>>, ServerLock, "write")
    /\ pc' = [pc EXCEPT ![k] = "unregistering"]
    /\ call' = Call("task", None, {})
    /\ RegistryUnchanged
    /\ UNCHANGED <<message_tx, message_tx_rx, message_rx, rx_loop, tx_loop,
                   bridge, handling, trace>>

\* .unregister_client(client_id).await, which reads the removed client's
\* role under its read lock; the guard is dropped and the driver's future
\* completes, dropping the inbound receiver
Unregister(k) ==
    /\ pc[k] = "unregistering"
    /\ client_id[k] \in DOMAIN clients =>
            CanRead(ClientLock(clients[client_id[k]]))
    /\ driver_unregister(k)
    /\ held' = ReleaseAll(<<"driver", k>>)
    /\ pc' = [pc EXCEPT ![k] = "done"]
    /\ message_rx' = [message_rx EXCEPT ![k] = <<>>]
    /\ UNCHANGED <<rx_loop, tx_loop, bridge, handling, trace>>

\* the steps of the upgrade callbacks
BridgeSteps ==
    \/ \E k \in BridgeConns : Accept(k)
    \/ \E k \in BridgeConns : BridgeRegister(k)
    \/ \E k \in BridgeConns : BridgeDisconnected(k)

\* the steps of the rx loops
RxSteps ==
    \/ \E k \in BridgeConns, op \in Commands : RxMessage(k, op)
    \/ \E k \in BridgeConns : RxError(k)
    \/ \E k \in BridgeConns : RxClosed(k)
    \/ \E k \in BridgeConns : RxSendMessage(k)
    \/ \E k \in BridgeConns : RxSendError(k)

\* the steps of the tx loops
TxSteps ==
    \/ \E k \in BridgeConns : TxWrite(k)
    \/ \E k \in BridgeConns : TxFail(k)
    \/ \E k \in BridgeConns : TxSendError(k)
    \/ \E k \in BridgeConns : TxClosed(k)

\* the steps of the driver loops
DriverSteps ==
    \/ \E k \in BridgeConns : DriverRecv(k)
    \/ \E k \in BridgeConns : HandlerLock(k)
    \/ \E k \in BridgeConns : ClientWrite(k)
    \/ \E k \in BridgeConns : HandlerCall(k)
    \/ \E k \in BridgeConns : ClientRead(k)
    \/ \E k \in BridgeConns : DriverSend(k)
    \/ \E k \in BridgeConns : UnregisterLock(k)
    \/ \E k \in BridgeConns : Unregister(k)

\* MaxBridgeConns connections, each with its four tasks
NextBridge == BridgeSteps \/ RxSteps \/ TxSteps \/ DriverSteps

SpecBridge == Init /\ [][NextBridge]_vars

\* the runtime schedules every task that can take a step; what the peer
\* sends and whether a socket write completes is left to the peer
TaskSteps(k) ==
    \/ Accept(k) \/ BridgeRegister(k) \/ BridgeDisconnected(k)
    \/ RxSendMessage(k) \/ RxSendError(k)
    \/ TxSendError(k) \/ TxClosed(k)
    \/ DriverRecv(k) \/ HandlerLock(k) \/ ClientWrite(k) \/ HandlerCall(k)
    \/ ClientRead(k) \/ DriverSend(k) \/ UnregisterLock(k) \/ Unregister(k)

FairBridge ==
    /\ SpecBridge
    /\ \A k \in BridgeConns : WF_vars(TaskSteps(k))

(* ---------------------------------------------------------------------- *)
(* Properties                                                              *)
(* ---------------------------------------------------------------------- *)

\* the registered clients, and the role of a registered client
Registered == DOMAIN clients
RoleOf(c) == state[clients[c]]

Failures == {InvalidClientId, InvalidClientState, InvalidSessionId}

\* only Create makes call.op "create" and only Subscribe makes it "subscribe"

\* C1: whenever pub_session_create or pub_session_subscribe is called for a
\* registered client whose role is not Uninitialized (a publisher, a
\* subscriber, or a subscriber whose session is gone), create returns None
\* and subscribe returns one of the failure results, never Success
C1_AssignedClientRefused ==
    [][\A c \in Ids :
          (c \in Registered /\ RoleOf(c) # Uninitialized) =>
              /\ call'.op = "create" =>
                    \A s \in SessionIds :
                        Create(c, s) => call' = Call("create", None, {})
              /\ call'.op = "subscribe" =>
                    \A s \in SessionIds :
                        Subscribe(s, c) => call'.value \in Failures]_vars

\* C1 witness: the only registered client is a subscriber of a session that
\* is gone, and the call just made for it was refused
C1_StaleSubscriberRefused ==
    /\ call = Call("subscribe", InvalidClientState, {})
    /\ \E c \in Ids, s \in SessionIds :
          /\ Registered = {c}
          /\ RoleOf(c) = Subscriber(s)
          /\ s \notin DOMAIN pub_sessions

\* everything but the record of the last step
ServerVars == <<client_id_counter, clients, pub_sessions, state, client_id,
                message_tx, message_tx_rx, driver>>

\* C2: pub_session_subscribe returns InvalidClientId for an unregistered
\* client, else InvalidClientState for a client whose role is not
\* Uninitialized, else InvalidSessionId for an unknown session, else
\* Success; a subscribe that returns a failure and a create that returns
\* None leave the registry, the roles, the sessions and the outbound queues
\* as they were
C2_SubscribeResultAndFailureFrame ==
    [][/\ call'.op = "subscribe" =>
            /\ \A c \in Ids, s \in SessionIds :
                  Subscribe(s, c) =>
                      call'.value =
                          IF c \notin Registered THEN InvalidClientId
                          ELSE IF RoleOf(c) # Uninitialized THEN InvalidClientState
                          ELSE IF s \notin DOMAIN pub_sessions THEN InvalidSessionId
                          ELSE Success
            /\ call'.value # Success => UNCHANGED ServerVars
       /\ call' = Call("create", None, {}) => UNCHANGED ServerVars]_vars

\* C2 witness: a subscribe has just been refused for an unknown session
\* while another session has a subscriber with a message in its queue
C2_RefusedUnknownSession ==
    /\ call = Call("subscribe", InvalidSessionId, {})
    /\ \E s \in DOMAIN pub_sessions :
          \E i \in DOMAIN pub_sessions[s].subscriber :
              message_tx[pub_sessions[s].subscriber[i]] # <<>>

\* the connections a session's subscriber map holds a sender of
SubscriberConns(session) ==
    { session.subscriber[i] : i \in DOMAIN session.subscriber }

\* the messages a step appends to connection k's outbound queue
Sent(k) ==
    IF Len(message_tx'[k]) > Len(message_tx[k])
    THEN { message_tx'[k][Len(message_tx'[k])] }
    ELSE {}

\* the step is a subscribe to, an unsubscribe from, or the disconnection of
\* a subscriber of session s
MembershipStep(s) ==
    \/ \E c \in Ids : Subscribe(s, c)
    \/ \E c \in Ids : Unsubscribe(s, c)
    \/ \E k \in Conns :
          /\ DriverEnd(k)
          /\ client_id[k] \in Registered
          /\ RoleOf(client_id[k]) = Subscriber(s)

\* C3: every viewer-count notification that a step appends to a queue is
\* appended by a subscribe, an unsubscribe or a subscriber's disconnection,
\* to a subscriber of the session concerned, and carries the size of that
\* session's subscriber map as it is after the step
C3_ViewCountIsMapSize ==
    [][\A k \in Conns : \A m \in Sent(k) :
          m.type = "NotifyViewCount" =>
              \E s \in DOMAIN pub_sessions' :
                  /\ MembershipStep(s)
                  /\ k \in SubscriberConns(pub_sessions'[s])
                  /\ m.viewers = Cardinality(DOMAIN pub_sessions'[s].subscriber)]_vars

\* C3 witness: a subscriber has disconnected and the one left in the
\* session holds the notification of the new count, 1
C3_CountAfterLeave ==
    \E s \in DOMAIN pub_sessions, k \in Conns :
        /\ SubscriberConns(pub_sessions[s]) = {k}
        /\ message_tx[k] = <<NotifyViewCount(1)>>
        /\ \E c \in Registered : RoleOf(c) = Publisher(s)
        /\ call = Call("unregister", "Subscriber", {k})

\* the outbound queues after a step are the queues before it with message m
\* appended once on every connection of T whose receiver is alive and whose
\* queue has room, and nothing else changed
FannedOut(T, m) ==
    \A k \in Conns :
        message_tx'[k] =
            IF k \in T /\ message_tx_rx[k] /\ Len(message_tx[k]) < ChannelCapacity
            THEN Append(message_tx[k], m)
            ELSE message_tx[k]

\* the role of registered client c after the step
RoleOfNext(c) == state'[clients'[c]]

\* all sessions but s are as they were
OtherSessionsKept(s) ==
    /\ DOMAIN pub_sessions' \ {s} = DOMAIN pub_sessions \ {s}
    /\ \A t \in DOMAIN pub_sessions \ {s} : pub_sessions'[t] = pub_sessions[t]

\* all connections' roles but that of connection k are as they were
OtherRolesKept(k) == \A j \in Conns \ {k} : state'[j] = state[j]

\* what a successful subscribe(s, c) does to the session and to the role
Joined(s, c) ==
    /\ clients' = clients
    /\ s \in DOMAIN pub_sessions'
    /\ pub_sessions'[s] =
          [pub_sessions[s] EXCEPT
              !.subscriber = MapInsert(@, c, clients[c])]
    /\ OtherSessionsKept(s)
    /\ RoleOfNext(c) = Subscriber(s)
    /\ OtherRolesKept(clients[c])

\* C4: subscribe(s, c) succeeds only for a registered Uninitialized client
\* and an existing session; it then adds c to the subscriber map of s, makes
\* c's role Subscriber{s}, and fans the viewer-count notification out to
\* every subscriber of s, c included: one copy on each queue that has room
\* and a live receiver, nothing on any other queue
C4_SubscribeJoinsAndNotifies ==
    [][call' = Call("subscribe", Success, call'.sent) =>
       \A s \in SessionIds, c \in Ids :
          Subscribe(s, c) =>
              /\ c \in Registered /\ RoleOf(c) = Uninitialized
              /\ s \in DOMAIN pub_sessions
              /\ Joined(s, c)
              /\ FannedOut(
                    SubscriberConns(pub_sessions'[s]),
                    NotifyViewCount(Cardinality(DOMAIN pub_sessions'[s].subscriber)))]_vars

\* C4 witness: a second client has just subscribed and both subscribers of
\* the session hold the notification of the count 2
C4_BothReceiveCountTwo ==
    \E s \in DOMAIN pub_sessions, j, k \in Conns :
        /\ j # k
        /\ SubscriberConns(pub_sessions[s]) = {j, k}
        /\ call = Call("subscribe", Success, {j, k})
        /\ message_tx[j] = <<NotifyViewCount(2)>>
        /\ message_tx[k] = <<NotifyViewCount(2)>>

\* what the unregistration of a publisher c whose session s is in the map
\* does: c leaves the registry, s leaves the map, and the notification that
\* the session is closed is fanned out to the subscribers s had
PublisherLeft(c, s) ==
    /\ clients' = MapRemove(clients, c)
    /\ s \notin DOMAIN pub_sessions'
    /\ OtherSessionsKept(s)
    /\ FannedOut(SubscriberConns(pub_sessions[s]), NotifySessionClosed)

\* the step is the unregistration of registered client c, a publisher whose
\* session s is in the map with c as its owner
OwnerUnregisters(c, s) ==
    /\ call'.op = "unregister"
    /\ c \in Registered
    /\ RoleOf(c) = Publisher(s)
    /\ s \in DOMAIN pub_sessions
    /\ pub_sessions[s].owner_id = c
    /\ \E k \in Conns : client_id[k] = c /\ DriverEnd(k)

\* a session enters the map only by a create that returns its code
OnlyCreateAdds ==
    \A s \in SessionIds :
        (s \notin DOMAIN pub_sessions /\ s \in DOMAIN pub_sessions') =>
            call' = Call("create", s, {})

\* session s has been closed under a subscriber that is still registered:
\* it is not in the map and some registered client's role still names it
ClosedUnderSubscriber(s) ==
    /\ s \notin DOMAIN pub_sessions
    /\ \E d \in Registered : RoleOf(d) = Subscriber(s)

\* C5 as stated: when the publisher that owns s unregisters while s is in
\* the map, s is removed and the "session closed" notification is fanned out
\* to its subscribers; s enters the map again only by a create that returns
\* its code, and until then every subscribe to s by any registered client
\* returns InvalidSessionId
C5_ClosedSessionRefusesAnyClient ==
    [][/\ \A c \in Ids, s \in SessionIds :
             OwnerUnregisters(c, s) => PublisherLeft(c, s)
       /\ OnlyCreateAdds
       /\ call'.op = "subscribe" =>
             \A c \in Registered, s \in SessionIds :
                 (ClosedUnderSubscriber(s) /\ Subscribe(s, c)) =>
                     call'.value = InvalidSessionId]_vars

\* C5 amended: as above, but a subscribe to a session that is not in the
\* map, closed or never created, returns InvalidSessionId for a registered client whose role is
\* Uninitialized only; for an unregistered id it returns InvalidClientId and
\* for a client with any other role (a subscriber of the closed session
\* included) InvalidClientState; it never succeeds
C5_ClosedSessionRefusesByValidation ==
    [][/\ \A c \in Ids, s \in SessionIds :
             OwnerUnregisters(c, s) => PublisherLeft(c, s)
       /\ OnlyCreateAdds
       /\ call'.op = "subscribe" =>
             \A c \in Ids, s \in SessionIds :
                 (s \notin DOMAIN pub_sessions /\ Subscribe(s, c)) =>
                     call'.value =
                         IF c \notin Registered THEN InvalidClientId
                         ELSE IF RoleOf(c) # Uninitialized THEN InvalidClientState
                         ELSE InvalidSessionId]_vars

\* C5 witness: a publisher has unregistered, its session is gone, and the
\* session's subscriber, whose role still names it, holds the notification
\* that the session is closed
C5_SubscriberToldSessionClosed ==
    \E c \in Registered, s \in SessionIds :
        /\ s \notin DOMAIN pub_sessions
        /\ RoleOf(c) = Subscriber(s)
        /\ message_tx[clients[c]] = <<NotifySessionClosed>>
        /\ call = Call("unregister", "Publisher", {clients[c]})

\* what the unregistration of a subscriber c of session s does when s is in
\* the map: c leaves the map of s, s stays, and the new size of the map is
\* fanned out to the subscribers that remain
SubscriberLeft(c, s) ==
    /\ s \in DOMAIN pub_sessions'
    /\ pub_sessions'[s] =
          [pub_sessions[s] EXCEPT !.subscriber = MapRemove(@, c)]
    /\ OtherSessionsKept(s)
    /\ clients[c] \notin SubscriberConns(pub_sessions'[s])
    /\ FannedOut(
          SubscriberConns(pub_sessions'[s]),
          NotifyViewCount(Cardinality(DOMAIN pub_sessions'[s].subscriber)))

\* C6: when a registered client c whose role is Subscriber{s} unregisters,
\* c leaves the registry and every other client's role, that of the owner of
\* s included, is kept; if s is in the map, c leaves its subscriber map, s
\* stays, and the new size of the map is fanned out to the remaining
\* subscribers only (one copy on each of their queues that has room and a
\* live receiver) while the queue of c gets nothing; if s is not in the map,
\* no session and no queue changes
C6_SubscriberUnregisters ==
    [][call' = Call("unregister", "Subscriber", call'.sent) =>
       \A k \in Conns :
          DriverEnd(k) =>
              LET c == client_id[k]
                  s == RoleOf(c).session_id
              IN  /\ c \in Registered
                  /\ clients' = MapRemove(clients, c)
                  /\ OtherRolesKept(k)
                  /\ message_tx'[clients[c]] = message_tx[clients[c]]
                  /\ IF s \in DOMAIN pub_sessions
                     THEN SubscriberLeft(c, s)
                     ELSE /\ pub_sessions' = pub_sessions
                          /\ message_tx' = message_tx]_vars

\* C6 witness: of two subscribers one has unregistered; the one that remains
\* holds the notification of the count 1, the queue of the one that left,
\* open and empty, got nothing, and the owner is still the publisher
C6_RemainingSubscriberNotified ==
    \E s \in DOMAIN pub_sessions, j, k \in Conns :
        /\ call = Call("unregister", "Subscriber", {j})
        /\ pub_sessions[s].owner_id \in Registered
        /\ RoleOf(pub_sessions[s].owner_id) = Publisher(s)
        /\ SubscriberConns(pub_sessions[s]) = {j}
        /\ message_tx[j] = <<NotifyViewCount(1)>>
        /\ k \notin {j, clients[pub_sessions[s].owner_id]}
        /\ driver[k] = "done"
        /\ message_tx_rx[k] /\ message_tx[k] = <<>>

\* session s is in the map before the step and after it is gone or has
\* another owner
RemovedOrReplaced(s) ==
    /\ s \in DOMAIN pub_sessions
    /\ \/ s \notin DOMAIN pub_sessions'
       \/ pub_sessions'[s].owner_id # pub_sessions[s].owner_id

\* C7: after every step every session in the map has an owner that is
\* registered with the role Publisher{that session}, and a step removes or
\* replaces a session only if it is the unregistration of the session's owner
C7_SessionLivesWithItsOwner ==
    [][/\ \A s \in DOMAIN pub_sessions' :
             /\ pub_sessions'[s].owner_id \in DOMAIN clients'
             /\ RoleOfNext(pub_sessions'[s].owner_id) = Publisher(s)
       /\ \A s \in SessionIds :
             RemovedOrReplaced(s) =>
                 /\ call'.op = "unregister"
                 /\ \E k \in Conns :
                       /\ client_id[k] = pub_sessions[s].owner_id
                       /\ DriverEnd(k)]_vars

\* C8: register_client assigns the counter plus one, wrapped, stores it as
\* the counter, and the id it assigns is not in the registry before the call
C8_RegisterAssignsFreshId ==
    [][call'.op = "register" =>
       \A k \in Conns :
          Register(k) =>
              /\ client_id_counter' = wrapping_add(client_id_counter, 1)
              /\ client_id'[k] = client_id_counter'
              /\ client_id_counter' \notin Registered]_vars

\* C9: a create that returns session code s adds s, which was not in the
\* map, with an empty subscriber map and the caller as owner, makes the
\* caller's role Publisher{s}, and leaves every session that was in the map
\* as it was
C9_CreateAddsOneNewSession ==
    [][(call'.op = "create" /\ call'.value # None) =>
       \A c \in Ids, s \in SessionIds :
          Create(c, s) =>
              /\ s \notin DOMAIN pub_sessions
              /\ DOMAIN pub_sessions' = DOMAIN pub_sessions \cup {s}
              /\ pub_sessions'[s] =
                    [owner_id |-> c, session_id |-> s, subscriber |-> EmptyMap]
              /\ \A t \in DOMAIN pub_sessions : pub_sessions'[t] = pub_sessions[t]
              /\ RoleOfNext(c) = Publisher(s)]_vars

\* the subscriber sets a step of the registry can broadcast to: none, or
\* those of a session as it is before or after the step
BroadcastTargets ==
    {{}} \cup { SubscriberConns(pub_sessions[s]) : s \in DOMAIN pub_sessions }
         \cup { SubscriberConns(pub_sessions'[s]) : s \in DOMAIN pub_sessions' }

\* the messages the registry broadcasts
BroadcastMessages ==
    {NotifySessionClosed} \cup { NotifyViewCount(n) : n \in 0 .. Cardinality(Conns) }

StaysOpen(k) == driver[k] = "running" /\ driver'[k] = "running"

\* the step is the call op for the client id under which connection k is
\* registered, and it has returned value
CalledFor(k, op, value) ==
    /\ call'.op = op
    /\ call'.value = value
    /\ client_id[k] \in Registered
    /\ clients[client_id[k]] = k

\* C11: while a client's connection is open its role changes only from
\* Uninitialized to Publisher{s} by a create that returns s, from
\* Uninitialized to Subscriber{s} by a subscribe to s that succeeds, and from
\* Subscriber{s} to Uninitialized by an unsubscribe of s; so Publisher{s}
\* stays until the client is unregistered and no role goes from Subscriber
\* to Publisher, from Publisher to Subscriber or from one session to another
C11_RoleChangesOnlyByItsOperation ==
    [][\A k \in Conns :
          (StaysOpen(k) /\ state'[k] # state[k]) =>
              \/ /\ state[k] = Uninitialized
                 /\ state'[k].tag = "Publisher"
                 /\ CalledFor(k, "create", state'[k].session_id)
                 /\ Create(client_id[k], state'[k].session_id)
              \/ /\ state[k] = Uninitialized
                 /\ state'[k].tag = "Subscriber"
                 /\ CalledFor(k, "subscribe", Success)
                 /\ Subscribe(state'[k].session_id, client_id[k])
              \/ /\ state[k].tag = "Subscriber"
                 /\ state'[k] = Uninitialized
                 /\ CalledFor(k, "unsubscribe", None)
                 /\ Unsubscribe(state[k].session_id, client_id[k])]_vars

\* C11 witness: a client that subscribed, and still holds the notification
\* of the count 1, has just unsubscribed and is Uninitialized again, while
\* the owner of the session is still its publisher
C11_SubscriberBackToUninitialized ==
    \E c \in Registered, s \in DOMAIN pub_sessions :
        /\ call = Call("unsubscribe", None, {})
        /\ RoleOf(c) = Uninitialized
        /\ message_tx[clients[c]] = <<NotifyViewCount(1)>>
        /\ DOMAIN pub_sessions[s].subscriber = {}
        /\ pub_sessions[s].owner_id \in Registered
        /\ RoleOf(pub_sessions[s].owner_id) = Publisher(s)

\* client id c is not in the subscriber map of session s, which may not exist
NotSubscribedTo(s, c) ==
    \/ s \notin DOMAIN pub_sessions
    \/ c \notin DOMAIN pub_sessions[s].subscriber

\* C12 as stated: an unsubscribe(s, c) with c not in the subscriber map of s
\* changes no session, no role and no outbound queue, whether s exists or not
C12_UnsubscribeAbsentChangesNothing ==
    [][call'.op = "unsubscribe" =>
       \A s \in SessionIds, c \in Ids :
          (NotSubscribedTo(s, c) /\ Unsubscribe(s, c)) =>
              UNCHANGED <<clients, pub_sessions, state, message_tx>>]_vars

\* C12 amended: an unsubscribe(s, c) with c not in the subscriber map of s
\* completes and changes no session and no registry entry; it changes no
\* role but that of c, which it resets to Uninitialized when c is registered
\* as Subscriber{s}; when s does not exist it changes no outbound queue, and
\* when s exists it fans the unchanged size of the map of s out to the
\* subscribers of s
C12_UnsubscribeAbsentKeepsSessions ==
    [][call'.op = "unsubscribe" =>
       \A s \in SessionIds, c \in Ids :
          (NotSubscribedTo(s, c) /\ Unsubscribe(s, c)) =>
              /\ UNCHANGED <<clients, pub_sessions>>
              /\ state' =
                    IF c \in Registered /\ RoleOf(c) = Subscriber(s)
                    THEN [state EXCEPT ![clients[c]] = Uninitialized]
                    ELSE state
              /\ IF s \in DOMAIN pub_sessions
                 THEN FannedOut(
                         SubscriberConns(pub_sessions[s]),
                         NotifyViewCount(
                             Cardinality(DOMAIN pub_sessions[s].subscriber)))
                 ELSE message_tx' = message_tx]_vars

\* C12 witness: two connections have been accepted, the owner of a session
\* and its one subscriber; an unsubscribe has left the subscriber in the map
\* and has sent it the count 1 once more
C12_CountSentAgain ==
    \E s \in DOMAIN pub_sessions, j \in Conns :
        /\ Cardinality({ k \in Conns : driver[k] # "none" }) = 2
        /\ Cardinality(Live) = 2
        /\ SubscriberConns(pub_sessions[s]) = {j}
        /\ call = Call("unsubscribe", None, {j})
        /\ message_tx[j] = <<NotifyViewCount(1)>>
        /\ state[j] = Subscriber(s)

\* the registry accepts the next connection, if the run has one left, and
\* every create, subscribe and unsubscribe, if a handler is there to call it
RegistryAvailable ==
    /\ \A k \in 1 .. MaxConns :
          (driver[k] = "none" /\ \A j \in 1 .. (k - 1) : driver[j] # "none") =>
              ENABLED Register(k)
    /\ HandlerRunning =>
          \A c \in Ids, s \in SessionIds :
              /\ ENABLED Create(c, s)
              /\ ENABLED Subscribe(s, c)
              /\ ENABLED Unsubscribe(s, c)

\* the sessions the role of registered client c names
SessionsOf(c) ==
    IF RoleOf(c) = Uninitialized THEN {} ELSE {RoleOf(c).session_id}

C16_StaleSubscriberUntilUnsubscribe ==
    [][/\ call' = Call("unregister", "Publisher", call'.sent) =>
             \A k \in Conns : DriverEnd(k) => OtherRolesKept(k)
       /\ \A k \in Conns :
             (state[k].tag = "Subscriber" /\ state'[k] # state[k]) =>
                 \/ call'.op = "unregister" /\ DriverEnd(k)
                 \/ /\ call'.op = "unsubscribe"
                    /\ Unsubscribe(state[k].session_id, client_id[k])
       /\ call'.op \in {"create", "subscribe"} =>
             \A c \in Registered, s \in SessionIds :
                 (RoleOf(c).tag = "Subscriber"
                    /\ RoleOf(c).session_id \notin DOMAIN pub_sessions) =>
                     /\ Create(c, s) => call'.value = None
                     /\ Subscribe(s, c) => call'.value = InvalidClientState
       /\ call'.op = "unsubscribe" =>
             \A s \in SessionIds, c \in Ids :
                 Unsubscribe(s, c) =>
                     state' =
                         IF c \in Registered /\ RoleOf(c) = Subscriber(s)
                         THEN [state EXCEPT ![clients[c]] = Uninitialized]
                         ELSE state]_vars

\* C16 witness: a subscriber was told that its session is closed, and an
\* unsubscribe has since reset its role while no session exists
C16_StaleRoleReset ==
    \E c \in Registered :
        /\ call = Call("unsubscribe", None, {})
        /\ pub_sessions = EmptyMap
        /\ RoleOf(c) = Uninitialized
        /\ message_tx[clients[c]] = <<NotifySessionClosed>>

\* connection k is registered under its own client id
OwnEntry(k) == client_id[k] \in Registered /\ clients[client_id[k]] = k

\* C17: a connection that is registered under its own id stays so as long
\* as its driver loop runs; the unregister_client that the end of connection
\* k's driver loop calls removes no entry of another connection; and when
\* the id it is called with is not registered it changes no entry, session,
\* queue or other connection's role
C17_OnlyOwnDriverEndRemoves ==
    [][/\ \A k \in Conns :
             (OwnEntry(k) /\ StaysOpen(k)) =>
                 /\ client_id[k] \in DOMAIN clients'
                 /\ clients'[client_id[k]] = k
       /\ call'.op = "unregister" =>
             \A k \in Conns :
                 DriverEnd(k) =>
                     /\ \A c \in Registered :
                           clients[c] # k =>
                               c \in DOMAIN clients' /\ clients'[c] = clients[c]
                     /\ client_id[k] \notin Registered =>
                           /\ UNCHANGED <<clients, pub_sessions, message_tx>>
                           /\ OtherRolesKept(k)]_vars

\* C20: every client id in the subscriber map of a session s is registered,
\* with the role Subscriber{s}, to the connection whose sender the map holds;
\* so no id is in the maps of two sessions, no publisher is in a map, and no
\* entry is left of a connection whose driver loop has ended
C20_SubscriberMapMatchesRoles ==
    \A s \in DOMAIN pub_sessions :
        \A c \in DOMAIN pub_sessions[s].subscriber :
            /\ c \in Registered
            /\ clients[c] = pub_sessions[s].subscriber[c]
            /\ RoleOf(c) = Subscriber(s)
            /\ driver[clients[c]] = "running"

(* ---------------------------------------------------------------------- *)
(* C13: a connection whose bridge loop has ended is unregistered           *)
(* ---------------------------------------------------------------------- *)

\* one of the two bridge loops of the registered connection k has ended
LoopEnded(k) ==
    /\ driver[k] = "running"
    /\ rx_loop[k].at = "done" \/ tx_loop[k] = "done"

\* the driver loop of connection k has consumed an error event, has ended
\* and has unregistered: no registry entry names the connection
Unregistered(k) ==
    /\ trace[k].errored
    /\ pc[k] = "done"
    /\ driver[k] = "done"
    /\ \A c \in Registered : clients[c] # k

\* C13: under fair scheduling, once either bridge loop of a registered
\* client's connection has ended (on an error or on the peer closing the
\* stream), an error event reaches the client's driver loop, the driver
\* loop ends and unregister is executed, so that the client is absent from
\* the registry, whichever loop ended first and however full the inbound
\* and outbound queues are.
C13_EndedLoopLeadsToUnregister ==
    \A k \in BridgeConns : LoopEnded(k) ~> Unregistered(k)

\* the tx loop failed first, with the rx loop still reading, while a response
\* was waiting in the outbound queue, and the client has been unregistered
C13_UnregisteredAfterWriterFailed ==
    \E k \in BridgeConns :
        /\ Unregistered(k)
        /\ tx_loop[k] = "done"
        /\ rx_loop[k].at = "next"
        /\ trace[k].handled # <<>>

(* ---------------------------------------------------------------------- *)
(* C15: the driver's enqueue of a response on a full outbound queue        *)
(* ---------------------------------------------------------------------- *)

\* the driver loop of connection k returns from the send_command call
SendReturns(k) == pc[k] = "send" /\ pc'[k] # "send"

\* C15: the outbound queue is backpressured: the driver loop's enqueue of
\* the handler's response waits while the queue is full, so that whenever
\* the driver gets past the enqueue with the writer loop's receiver alive,
\* the response is in the outbound queue; it is never dropped because the
\* queue is full.
C15_ResponseNeverDropped ==
    [][\A k \in BridgeConns :
            (SendReturns(k) /\ message_tx_rx[k]) =>
                /\ message_tx'[k] # <<>>
                /\ message_tx'[k][Len(message_tx'[k])] = handling[k]]_vars

(* ---------------------------------------------------------------------- *)
(* C18: lock order and deadlock freedom                                    *)
(* ---------------------------------------------------------------------- *)

\* the tasks of the connections of SpecBridge
BridgeTasks == {"bridge", "driver"} \X BridgeConns

\* the tasks holding a guard on the server's lock
ServerHolders == { t \in Tasks : GuardsOn(t, ServerLock) # {} }

\* the guard a task is suspended for, if its next step takes a lock
Wants(t) ==
    LET k == t[2]
        own == IF client_id[k] \in DOMAIN clients
               THEN clients[client_id[k]] ELSE k
    IN  IF t[1] = "bridge"
        THEN IF bridge[k] = "none" /\ \A j \in Conns : j < k => bridge[j] # "none"
             THEN Guard(ServerLock, "write") ELSE Nothing
        ELSE CASE pc[k] \in {"handle", "unregister"} -> Guard(ServerLock, "write")
               [] pc[k] = "client" /\ client_id[k] \in DOMAIN clients ->
                        Guard(ClientLock(own), "write")
               [] pc[k] = "read" -> Guard(ClientLock(k), "read")
               [] pc[k] = "unregistering" /\ client_id[k] \in DOMAIN clients ->
                        Guard(ClientLock(own), "read")
               [] OTHER -> Nothing

\* task t cannot go on before task u has taken a step: u holds a guard that
\* excludes the one t wants, or t is the upgrade callback sending its event
\* to the full inbound queue that u, the connection's driver, drains
WaitsFor(t, u) ==
    \/ /\ Wants(t) # Nothing
       /\ \E i \in GuardsOn(u, Wants(t).lock) :
                Wants(t).mode = "write" \/ held[u][i].mode = "write"
    \/ /\ t[1] = "bridge" /\ u = <<"driver", t[2]>>
       /\ bridge[t[2]] = "select"
       /\ rx_loop[t[2]].at = "done" \/ tx_loop[t[2]] = "done"
       /\ ~inbound_ready(t[2])

\* no set of tasks in which every task waits for a task of the set
NoWaitCycle ==
    \A S \in SUBSET BridgeTasks :
        S # {} => \E t \in S : \A u \in S : ~WaitsFor(t, u)

\* in the order a task has taken its guards, the server's lock comes first:
\* a client lock is taken while holding the server's lock or no lock, never
\* the server's lock while holding a client lock
LockOrder ==
    \A t \in Tasks : \A j \in 1 .. Len(held[t]) :
        /\ held[t][j].lock = ServerLock => j = 1
        /\ held[t][j].lock # ServerLock =>
                j = 1 \/ (j = 2 /\ held[t][1].lock = ServerLock)

\* a task that is between two operations holds no guard
ReleasedAtRest ==
    \A k \in Conns :
        /\ bridge[k] # "register" => held[<<"bridge", k>>] = <<>>
        /\ pc[k] \in {"none", "recv", "handle", "read", "unregister", "done"} =>
                held[<<"driver", k>>] = <<>>

\* the registry changes only in a step of the task that holds the server's
\* lock exclusively
SerializedStep ==
    <<client_id_counter, clients, pub_sessions, state>>
            # <<client_id_counter', clients', pub_sessions', state'>> =>
        \E t \in ServerHolders :
            /\ ServerHolders = {t}
            /\ held[t][1] = Guard(ServerLock, "write")
            /\ held'[t] = <<>>

\* C18: with the connection tasks running concurrently there is no
\* deadlock: register, unregister, create, subscribe and unsubscribe run
\* while holding the server's lock exclusively, a client lock is taken only
\* while holding the server's lock or no lock, never the server's lock
\* while holding a client lock, no tasks wait for each other in a cycle, and
\* every guard taken is released.
C18_LockOrderAndNoDeadlock ==
    /\ [][SerializedStep]_vars
    /\ [](Cardinality(ServerHolders) <= 1)
    /\ []LockOrder
    /\ []NoWaitCycle
    /\ []ReleasedAtRest
    /\ \A t \in BridgeTasks : (held[t] # <<>>) ~> (held[t] = <<>>)

\* a driver holds the server's lock and its client's write lock while the
\* other connection's driver waits for the server's lock
C18_DriverWaitsForServerLock ==
    \E k \in BridgeConns, j \in BridgeConns :
        /\ k # j
        /\ held[<<"driver", k>>] =
                <<Guard(ServerLock, "write"), Guard(ClientLock(k), "write")>>
        /\ WaitsFor(<<"driver", j>>, <<"driver", k>>)

(* ---------------------------------------------------------------------- *)
(* C19: commands are handled in the order they were enqueued               *)
(* ---------------------------------------------------------------------- *)

IsPrefix(a, b) ==
    Len(a) <= Len(b) /\ \A i \in 1 .. Len(a) : a[i] = b[i]

\* the driver loop of connection k has a command with the handler
InHandler(k) == pc[k] \in {"handle", "client", "operation"}

\* the commands of connection k are handled in the order rx_loop enqueued
\* them, and the one with the handler is the next one in that order
HandledInOrder(k) ==
    /\ IsPrefix(trace[k].handled, trace[k].enqueued)
    /\ InHandler(k) =>
            /\ handling[k].type = "Command"
            /\ Len(trace[k].handled) < Len(trace[k].enqueued)
            /\ handling[k].seq = trace[k].enqueued[Len(trace[k].handled) + 1]

\* a command of connection k is handled on this step
Handles(k) == trace'[k].handled # trace[k].handled

====
